---- MODULE Spec2Model ----
(***************************************************************************)
(* Cart synchronization core of the storefront client (CartProvider in     *)
(* contexts/CartContext, the gateway in graphql/cart.js).                  *)
(*                                                                         *)
(* The provider's React state (isOpen, cartId, cart, loading, error), the  *)
(* browser's localStorage entry 'cartId', the remote cart service and the  *)
(* asynchronous operations in flight are the state.  Every handler runs on *)
(* the single JavaScript thread: a step of the model is one synchronous    *)
(* stretch of a handler, from its invocation (or from the settling of the  *)
(* gateway promise it awaits) to its next await of a gateway call.  The    *)
(* component re-renders between two such stretches, so a callback invoked  *)
(* by a stretch closes over the state as it is when the stretch starts.    *)
(***************************************************************************)
EXTENDS Integers, Sequences, FiniteSets, TLC

VARIABLES isOpen, cartId, cart, loading, error, localStorage, remote, ops, calls, started

vars == <<isOpen, cartId, cart, loading, error, localStorage, remote, ops, calls, started>>

(* ------------------------------ bounds --------------------------------- *)

\* Number of core operations (startup included) invoked in one behaviour.
MaxOps == 3

(* ------------------------------ values --------------------------------- *)

\* JavaScript null; also the falsy value of `!cartId` and `if (storedCartId)`.
NULL == <<>>

\* A message string, as a sequence, so that it compares with NULL.
Str(text) == <<text>>

\* Opaque cart identifiers handed out by the remote service.
Gid(n) == <<"gid://shopify/Cart", n>>

\* The identifier a previous session may have left in localStorage.
PersistedGid == Gid(0)

CartGids == {Gid(n) : n \in 0..MaxOps}

Variants == {Str("variant-A"), Str("variant-B")}

\* The remote service names a cart line after the merchandise it holds.
LineIdOf(v) == IF v = Str("variant-A") THEN Str("line-A") ELSE Str("line-B")

LineIds == {LineIdOf(v) : v \in Variants}

\* Unit prices of the catalog, in hundredths of the currency unit.
PriceOf(v) == IF v = Str("variant-A") THEN 1250 ELSE 999

\* The arguments the presentation components pass to the mutations.
AddInputs == {<<Str("variant-A"), 2>>, <<Str("variant-B"), 1>>}

UpdateQuantities == {-1, 0, 3}

(* ------------------------- decimal amounts ----------------------------- *)

\* A string is the sequence of its characters.
Digits == <<"0", "1", "2", "3", "4", "5", "6", "7", "8", "9">>

IsDigit(ch) == \E i \in 1..10 : Digits[i] = ch

DigitVal(ch) == (CHOOSE i \in 1..10 : Digits[i] = ch) - 1

RECURSIVE NatToChars(_)
NatToChars(n) == IF n < 10 THEN <<Digits[n + 1]>>
                 ELSE Append(NatToChars(n \div 10), Digits[(n % 10) + 1])

\* The remote service serialises a Decimal with at least one fractional digit
\* and no trailing zero beyond it: 1250 -> "12.5", 2000 -> "20.0", 999 -> "9.99".
FormatAmount(h) ==
  LET whole == NatToChars(h \div 100)
      f == h % 100
      frac == IF f % 10 = 0 THEN <<Digits[(f \div 10) + 1]>>
              ELSE <<Digits[(f \div 10) + 1], Digits[(f % 10) + 1]>>
  IN whole \o <<".">> \o frac

\* A JavaScript number, in hundredths (the amounts of the model have two
\* fractional digits), or NaN.
Num(h) == [nan |-> FALSE, hundredths |-> h]

NaN == [nan |-> TRUE, hundredths |-> 0]

\* Index of the first character of s at or after i that is not a digit.
RECURSIVE EndOfDigits(_, _)
EndOfDigits(s, i) == IF i <= Len(s) /\ IsDigit(s[i]) THEN EndOfDigits(s, i + 1) ELSE i

\* Value of the digits s[i..j-1]; 0 for an empty run.
RECURSIVE DigitsValue(_, _, _)
DigitsValue(s, i, j) == IF i >= j THEN 0
                        ELSE DigitsValue(s, i, j - 1) * 10 + DigitVal(s[j - 1])

RECURSIVE SkipSpaces(_, _)
SkipSpaces(s, i) == IF i <= Len(s) /\ s[i] = " " THEN SkipSpaces(s, i + 1) ELSE i

\* parseFloat: leading white space, an optional sign, the longest prefix
\* digits[.digits] (or .digits); whatever follows is ignored; NaN without a digit.
ParseFloat(s) ==
  LET b == SkipSpaces(s, 1)
      signed == b <= Len(s) /\ s[b] \in {"+", "-"}
      sign == IF signed /\ s[b] = "-" THEN -1 ELSE 1
      i == IF signed THEN b + 1 ELSE b
      j == EndOfDigits(s, i)
      dot == j <= Len(s) /\ s[j] = "."
      k == IF dot THEN EndOfDigits(s, j + 1) ELSE j
      tenths == IF dot /\ k > j + 1 THEN DigitVal(s[j + 1]) ELSE 0
      hundredths == IF dot /\ k > j + 2 THEN DigitVal(s[j + 2]) ELSE 0
  IN IF j = i /\ (~dot \/ k = j + 1) THEN NaN
     ELSE Num(sign * (DigitsValue(s, i, j) * 100 + tenths * 10 + hundredths))

(* ------------------------------ carts ---------------------------------- *)

Line(v, q) == [id |-> LineIdOf(v), quantity |-> q, merchandise |-> [id |-> v]]

RECURSIVE LinesTotal(_)
LinesTotal(edges) ==
  IF edges = <<>> THEN 0
  ELSE PriceOf(Head(edges).node.merchandise.id) * Head(edges).node.quantity
       + LinesTotal(Tail(edges))

\* A ShopifyCart as the CartFragment selects it.
Cart(id, edges) ==
  [id |-> id,
   lines |-> [edges |-> edges],
   cost |-> [totalAmount |-> [amount |-> FormatAmount(LinesTotal(edges))]],
   checkoutUrl |-> <<"https://shop/cart/c", id>>]

Edge(v, q) == [node |-> Line(v, q)]

HasLine(c, lineId) == \E i \in 1..Len(c.lines.edges) : c.lines.edges[i].node.id = lineId

HasVariant(c, v) == \E i \in 1..Len(c.lines.edges) : c.lines.edges[i].node.merchandise.id = v

(* --------------------------- derived view ------------------------------ *)

\* cart?.lines?.edges?.map((edge) => edge.node) ?? []
Items(c) == IF c = NULL THEN <<>>
            ELSE [i \in 1..Len(c.lines.edges) |-> c.lines.edges[i].node]

\* items.reduce((sum, item) => sum + item.quantity, 0)
RECURSIVE Reduce(_, _)
Reduce(items, sum) == IF items = <<>> THEN sum
                      ELSE Reduce(Tail(items), sum + Head(items).quantity)

\* itemCount as the number of lines.
ItemCountOfLines(c) == Len(Items(c))

ItemCount(c) == Reduce(Items(c), 0)

\* totalAmount read with parseInt: the fraction is dropped.
TotalAmountParseInt(c) ==
  LET x == ParseFloat(IF c = NULL THEN <<"0">> ELSE c.cost.totalAmount.amount)
  IN IF x.nan THEN x ELSE Num((x.hundredths \div 100) * 100)

\* parseFloat(cart?.cost?.totalAmount?.amount ?? '0')
TotalAmount(c) == ParseFloat(IF c = NULL THEN <<"0">> ELSE c.cost.totalAmount.amount)

\* cart?.checkoutUrl ?? null
CheckoutUrl(c) == IF c = NULL THEN NULL ELSE c.checkoutUrl

items == Items(cart)

itemCount == ItemCount(cart)

totalAmount == TotalAmount(cart)

checkoutUrl == CheckoutUrl(cart)

(* --------------------------- remote service ---------------------------- *)

\* The identifier the service gives the next cart it creates.
NextGid == Gid(CHOOSE n \in 1..MaxOps :
                 /\ remote[Gid(n)] = NULL
                 /\ \A m \in 1..(n - 1) : remote[Gid(m)] # NULL)

AddLine(c, v, q) ==
  LET e == c.lines.edges IN
  Cart(c.id, IF HasVariant(c, v)
             THEN [i \in 1..Len(e) |->
                     IF e[i].node.merchandise.id = v
                     THEN Edge(v, e[i].node.quantity + q) ELSE e[i]]
             ELSE Append(e, Edge(v, q)))

KeepsLine(lineId, e) == e.node.id # lineId

RemoveLine(c, lineId) ==
  Cart(c.id, SelectSeq(c.lines.edges, LAMBDA e : KeepsLine(lineId, e)))

SetLine(c, lineId, q) ==
  LET e == c.lines.edges IN
  IF q <= 0 THEN RemoveLine(c, lineId)
  ELSE Cart(c.id, [i \in 1..Len(e) |->
                     IF e[i].node.id = lineId
                     THEN Edge(e[i].node.merchandise.id, q) ELSE e[i]])

\* The payload of a mutation's response: the selected cart and userErrors.
Payload(c, userErrors) == [cart |-> c, userErrors |-> userErrors]

UserError(m) == Payload(NULL, <<[message |-> m]>>)

\* What the service does with a request that reaches it, and what it answers.
\* refuse: the service rejects the request by a business rule of its own.
Service(fn, id, v, lineId, q, refuse) ==
  LET c == remote[id]
      same(p) == [remote |-> remote, payload |-> p]
      put(n) == [remote |-> [remote EXCEPT ![n.id] = n], payload |-> Payload(n, <<>>)]
  IN CASE fn = "getCart" -> same(Payload(c, <<>>))
       [] fn = "createCart" ->
            IF refuse THEN same(UserError(Str("Cart could not be created")))
            ELSE put(Cart(NextGid, <<>>))
       [] fn = "addCartLines" ->
            IF refuse \/ c = NULL \/ v \notin Variants
            THEN same(UserError(Str("The merchandise is invalid")))
            ELSE put(AddLine(c, v, q))
       [] fn = "updateCartLines" ->
            IF refuse \/ c = NULL \/ ~HasLine(c, lineId)
            THEN same(UserError(Str("The line does not exist")))
            ELSE put(SetLine(c, lineId, q))
       [] fn = "removeCartLines" ->
            IF refuse \/ c = NULL \/ ~HasLine(c, lineId)
            THEN same(UserError(Str("The line does not exist")))
            ELSE put(RemoveLine(c, lineId))

(* ------------------------------ gateway -------------------------------- *)

Fulfilled(v) == [status |-> "fulfilled", value |-> v]

Rejected(r) == [status |-> "rejected", reason |-> r]

\* new Error(message)
ErrorOf(m) == [instanceofError |-> TRUE, message |-> m]

\* createCart, addCartLines, updateCartLines, removeCartLines: throw on the
\* first user error, else return the cart of the payload.
MutationResult(payload) ==
  IF Len(payload.userErrors) > 0
  THEN Rejected(ErrorOf(payload.userErrors[1].message))
  ELSE Fulfilled(payload.cart)

\* getCart: return response.data.cart.
GetCartResult(payload) == Fulfilled(payload.cart)

\* How a call can end.  getCart reads no userErrors, so it fails by the
\* transport alone; a mutation's transport failure reaches the core as the
\* same kind of rejection as a user error, with another message.
Outcomes(fn) == IF fn = "getCart" THEN {"ok", "network"} ELSE {"ok", "userError"}

\* One request sent through shopifyFetch and the response it got (NULL when
\* the transport failed).
Request(fn, id, response) == [fn |-> fn, cartId |-> id, response |-> response]

\* A gateway that sends the request a second time when the first response
\* carried user errors.
GatewayRetries(fn, id, v, lineId, q, outcome) ==
  IF outcome = "network"
  THEN [remote |-> remote, promise |-> Rejected(ErrorOf(Str("Failed to fetch"))),
        requests |-> <<Request(fn, id, NULL)>>]
  ELSE LET r == Service(fn, id, v, lineId, q, outcome = "userError")
           again == Service(fn, id, v, lineId, q, FALSE)
       IN IF Len(r.payload.userErrors) > 0
          THEN [remote |-> again.remote,
                promise |-> IF fn = "getCart" THEN GetCartResult(again.payload)
                            ELSE MutationResult(again.payload),
                requests |-> <<Request(fn, id, r.payload), Request(fn, id, again.payload)>>]
          ELSE [remote |-> r.remote,
                promise |-> IF fn = "getCart" THEN GetCartResult(r.payload)
                            ELSE MutationResult(r.payload),
                requests |-> <<Request(fn, id, r.payload)>>]

\* One gateway call: the requests it sends, the new state of the service
\* and the promise the caller awaits.  With outcome "network" the request
\* does not reach the service and shopifyFetch rejects.
Gateway(fn, id, v, lineId, q, outcome) ==
  IF outcome = "network"
  THEN [remote |-> remote, promise |-> Rejected(ErrorOf(Str("Failed to fetch"))),
        requests |-> <<Request(fn, id, NULL)>>]
  ELSE LET r == Service(fn, id, v, lineId, q, outcome = "userError")
       IN [remote |-> r.remote,
           promise |-> IF fn = "getCart" THEN GetCartResult(r.payload)
                       ELSE MutationResult(r.payload),
           requests |-> <<Request(fn, id, r.payload)>>]

CallOf(fn, id, n) == [fn |-> fn, cartId |-> id, op |-> n]

(* --------------------------- operations -------------------------------- *)

Pending(n) == ops[n].status = "pending"

InFlight == {n \in 1..Len(ops) : Pending(n)}

\* The record of one invocation of an asynchronous core operation: the call
\* it has made last (pc), the values its closure holds, the promise of the
\* gateway call it awaits and the state of the promise it returned itself;
\* and, for the properties, the snapshot at the invocation (pre) and whether
\* no other operation was in flight then (alone).
Op(kind, pc, status, id, v, lineId, q, promise) ==
  [kind |-> kind, pc |-> pc, status |-> status, cartId |-> id,
   variantId |-> v, lineId |-> lineId, quantity |-> q,
   promise |-> promise, startup |-> ~started, pre |-> cart, alone |-> (InFlight = {})]

\* err instanceof Error ? err.message : fallback
ErrorMessage(err, fallback) == IF err.instanceofError THEN err.message ELSE fallback

\* The operation's own promise settles; the gateway promise it awaited and
\* the values of its closure are garbage from here on.
Settle(n, status) ==
  ops' = [ops EXCEPT ![n].status = status, ![n].promise = NULL, ![n].pre = NULL]

\* A gateway call made by a new operation.
Begin(kind, fn, id, v, lineId, q) ==
  \E outcome \in Outcomes(fn) :
    LET g == Gateway(fn, id, v, lineId, q, outcome) IN
    /\ remote' = g.remote
    /\ ops' = Append(ops, Op(kind, fn, "pending", id, v, lineId, q, g.promise))
    /\ calls' = Append(calls, CallOf(fn, id, Len(ops) + 1))

\* refreshCart that returns at once without an identity, loading untouched.
refreshCartKeepsLoading ==
  /\ Len(ops) < MaxOps
  /\ LET storedCartId == localStorage IN
     IF storedCartId = NULL
     THEN /\ ops' = Append(ops, Op("refreshCart", "return", "fulfilled",
                                   NULL, NULL, NULL, 0, NULL))
          /\ UNCHANGED <<loading, error, remote, calls>>
     ELSE /\ loading' = TRUE
          /\ error' = NULL
          /\ Begin("refreshCart", "getCart", storedCartId, NULL, NULL, 0)
  /\ UNCHANGED <<isOpen, cartId, cart, localStorage>>

\* refreshCart
refreshCart ==
  /\ Len(ops) < MaxOps
  /\ LET storedCartId == localStorage IN
     IF storedCartId = NULL
     THEN /\ loading' = FALSE
          /\ ops' = Append(ops, Op("refreshCart", "return", "fulfilled",
                                   NULL, NULL, NULL, 0, NULL))
          /\ UNCHANGED <<error, remote, calls>>
     ELSE /\ loading' = TRUE
          /\ error' = NULL
          /\ Begin("refreshCart", "getCart", storedCartId, NULL, NULL, 0)
  /\ UNCHANGED <<isOpen, cartId, cart, localStorage>>

\* useEffect(() => { refreshCart(); }, [refreshCart]): runs once, after mount.
Startup ==
  /\ ~started
  /\ started' = TRUE
  /\ refreshCart

RefreshCart ==
  /\ started
  /\ UNCHANGED started
  /\ refreshCart

\* GetCartSettled that reports a cart the service does not know as an error.
GetCartSettledNotFoundIsError(n) ==
  /\ Pending(n)
  /\ ops[n].pc = "getCart"
  /\ LET p == ops[n].promise IN
     IF p.status = "fulfilled" /\ p.value # NULL
     THEN /\ cart' = p.value
          /\ cartId' = ops[n].cartId
          /\ UNCHANGED <<localStorage, error>>
     ELSE /\ localStorage' = NULL
          /\ cartId' = NULL
          /\ cart' = NULL
          /\ error' = Str("Failed to fetch cart")
  /\ loading' = FALSE
  /\ Settle(n, "fulfilled")
  /\ UNCHANGED <<isOpen, remote, calls, started>>

\* GetCartSettled with a catch block that keeps the persisted identity.
GetCartSettledKeepsIdentity(n) ==
  /\ Pending(n)
  /\ ops[n].pc = "getCart"
  /\ LET p == ops[n].promise IN
     IF p.status = "fulfilled"
     THEN IF p.value # NULL
          THEN /\ cart' = p.value
               /\ cartId' = ops[n].cartId
               /\ UNCHANGED <<localStorage, error>>
          ELSE /\ localStorage' = NULL
               /\ cartId' = NULL
               /\ cart' = NULL
               /\ UNCHANGED error
     ELSE /\ cartId' = NULL
          /\ cart' = NULL
          /\ error' = Str("Failed to fetch cart")
          /\ UNCHANGED localStorage
  /\ loading' = FALSE
  /\ Settle(n, "fulfilled")
  /\ UNCHANGED <<isOpen, remote, calls, started>>

\* A fetch adopting the snapshot but not the identity.
GetCartSettledSnapshotOnly(n) ==
  /\ Pending(n)
  /\ ops[n].pc = "getCart"
  /\ LET p == ops[n].promise IN
     IF p.status = "fulfilled"
     THEN IF p.value # NULL
          THEN /\ cart' = p.value
               /\ UNCHANGED <<cartId, localStorage, error>>
          ELSE /\ localStorage' = NULL
               /\ cartId' = NULL
               /\ cart' = NULL
               /\ UNCHANGED error
     ELSE /\ localStorage' = NULL
          /\ cartId' = NULL
          /\ cart' = NULL
          /\ error' = Str("Failed to fetch cart")
  /\ loading' = FALSE
  /\ Settle(n, "fulfilled")
  /\ UNCHANGED <<isOpen, remote, calls, started>>

\* refreshCart resumes after `await getCart(storedCartId)`.
GetCartSettled(n) ==
  /\ Pending(n)
  /\ ops[n].pc = "getCart"
  /\ LET p == ops[n].promise IN
     IF p.status = "fulfilled"
     THEN IF p.value # NULL
          THEN /\ cart' = p.value
               /\ cartId' = ops[n].cartId
               /\ UNCHANGED <<localStorage, error>>
          ELSE /\ localStorage' = NULL
               /\ cartId' = NULL
               /\ cart' = NULL
               /\ UNCHANGED error
     ELSE /\ localStorage' = NULL
          /\ cartId' = NULL
          /\ cart' = NULL
          /\ error' = Str("Failed to fetch cart")
  /\ loading' = FALSE
  /\ Settle(n, "fulfilled")
  /\ UNCHANGED <<isOpen, remote, calls, started>>

openCart ==
  /\ started
  /\ isOpen' = TRUE
  /\ UNCHANGED <<cartId, cart, loading, error, localStorage, remote, ops, calls, started>>

closeCart ==
  /\ started
  /\ isOpen' = FALSE
  /\ UNCHANGED <<cartId, cart, loading, error, localStorage, remote, ops, calls, started>>

\* toggleCart also dismissing the error.
toggleCartClearsError ==
  /\ started
  /\ isOpen' = ~isOpen
  /\ error' = NULL
  /\ UNCHANGED <<cartId, cart, loading, localStorage, remote, ops, calls, started>>

toggleCart ==
  /\ started
  /\ isOpen' = ~isOpen
  /\ UNCHANGED <<cartId, cart, loading, error, localStorage, remote, ops, calls, started>>

\* addItem leaving an earlier error in place.
addItemKeepsError(variantId, quantity) ==
  /\ started
  /\ Len(ops) < MaxOps
  /\ loading' = TRUE
  /\ IF cartId # NULL
     THEN /\ Begin("addItem", "addCartLines", cartId, variantId, NULL, quantity)
          /\ UNCHANGED cartId
     ELSE LET storedCartId == localStorage IN
          IF storedCartId # NULL
          THEN /\ cartId' = storedCartId
               /\ Begin("addItem", "addCartLines", storedCartId, variantId, NULL, quantity)
          ELSE /\ Begin("addItem", "createCart", NULL, variantId, NULL, quantity)
               /\ UNCHANGED cartId
  /\ UNCHANGED <<isOpen, cart, error, localStorage, started>>

\* addItem consulting the in-memory identity only.
addItemIgnoresStored(variantId, quantity) ==
  /\ started
  /\ Len(ops) < MaxOps
  /\ loading' = TRUE
  /\ error' = NULL
  /\ IF cartId # NULL
     THEN Begin("addItem", "addCartLines", cartId, variantId, NULL, quantity)
     ELSE Begin("addItem", "createCart", NULL, variantId, NULL, quantity)
  /\ UNCHANGED <<isOpen, cartId, cart, localStorage, started>>

\* addItem up to its first await of a gateway call; getOrCreateCart is
\* evaluated with the cartId of the render the callback comes from.
AddItemBody(variantId, quantity) ==
  /\ started
  /\ Len(ops) < MaxOps
  /\ loading' = TRUE
  /\ error' = NULL
  /\ IF cartId # NULL
     THEN /\ Begin("addItem", "addCartLines", cartId, variantId, NULL, quantity)
          /\ UNCHANGED cartId
     ELSE LET storedCartId == localStorage IN
          IF storedCartId # NULL
          THEN /\ cartId' = storedCartId
               /\ Begin("addItem", "addCartLines", storedCartId, variantId, NULL, quantity)
          ELSE /\ Begin("addItem", "createCart", NULL, variantId, NULL, quantity)
               /\ UNCHANGED cartId
  /\ UNCHANGED <<cart, localStorage, started>>

addItem(variantId, quantity) ==
  /\ AddItemBody(variantId, quantity)
  /\ UNCHANGED isOpen

\* CreateCartSettled with a storeCartId that does not write localStorage.
CreateCartSettledNotPersisted(n) ==
  /\ Pending(n)
  /\ ops[n].pc = "createCart"
  /\ LET p == ops[n].promise IN
     IF p.status = "fulfilled"
     THEN LET newCart == p.value IN
          \E outcome \in Outcomes("addCartLines") :
            LET g == Gateway("addCartLines", newCart.id, ops[n].variantId, NULL,
                             ops[n].quantity, outcome) IN
            /\ cart' = newCart
            /\ cartId' = newCart.id
            /\ remote' = g.remote
            /\ ops' = [ops EXCEPT ![n].pc = "addCartLines", ![n].cartId = newCart.id,
                                  ![n].promise = g.promise]
            /\ calls' = Append(calls, CallOf("addCartLines", newCart.id, n))
            /\ UNCHANGED <<loading, error, localStorage>>
     ELSE /\ error' = ErrorMessage(p.reason, Str("Failed to add item to cart"))
          /\ loading' = FALSE
          /\ Settle(n, "rejected")
          /\ UNCHANGED <<cartId, cart, localStorage, remote, calls>>
  /\ UNCHANGED <<isOpen, started>>

\* A failed create-cart that leaves the loading flag set.
CreateCartSettledKeepsLoading(n) ==
  /\ Pending(n)
  /\ ops[n].pc = "createCart"
  /\ LET p == ops[n].promise IN
     IF p.status = "fulfilled"
     THEN LET newCart == p.value IN
          \E outcome \in Outcomes("addCartLines") :
            LET g == Gateway("addCartLines", newCart.id, ops[n].variantId, NULL,
                             ops[n].quantity, outcome) IN
            /\ cart' = newCart
            /\ localStorage' = newCart.id
            /\ cartId' = newCart.id
            /\ remote' = g.remote
            /\ ops' = [ops EXCEPT ![n].pc = "addCartLines", ![n].cartId = newCart.id,
                                  ![n].promise = g.promise]
            /\ calls' = Append(calls, CallOf("addCartLines", newCart.id, n))
            /\ UNCHANGED <<loading, error>>
     ELSE /\ error' = ErrorMessage(p.reason, Str("Failed to add item to cart"))
          /\ Settle(n, "rejected")
          /\ UNCHANGED <<loading, cartId, cart, localStorage, remote, calls>>
  /\ UNCHANGED <<isOpen, started>>

\* getOrCreateCart resumes after `await createCart()`, and addItem after it.
CreateCartSettled(n) ==
  /\ Pending(n)
  /\ ops[n].pc = "createCart"
  /\ LET p == ops[n].promise IN
     IF p.status = "fulfilled"
     THEN LET newCart == p.value IN
          \E outcome \in Outcomes("addCartLines") :
            LET g == Gateway("addCartLines", newCart.id, ops[n].variantId, NULL,
                             ops[n].quantity, outcome) IN
            /\ cart' = newCart
            /\ localStorage' = newCart.id
            /\ cartId' = newCart.id
            /\ remote' = g.remote
            /\ ops' = [ops EXCEPT ![n].pc = "addCartLines", ![n].cartId = newCart.id,
                                  ![n].promise = g.promise]
            /\ calls' = Append(calls, CallOf("addCartLines", newCart.id, n))
            /\ UNCHANGED <<loading, error>>
     ELSE /\ error' = ErrorMessage(p.reason, Str("Failed to add item to cart"))
          /\ loading' = FALSE
          /\ Settle(n, "rejected")
          /\ UNCHANGED <<cartId, cart, localStorage, remote, calls>>
  /\ UNCHANGED <<isOpen, started>>

\* The lines mutations clearing loading only when the call succeeded.
LinesSettledLoadingOnFailure(n, fn, fallback) ==
  /\ Pending(n)
  /\ ops[n].pc = fn
  /\ LET p == ops[n].promise IN
     IF p.status = "fulfilled"
     THEN /\ cart' = p.value
          /\ Settle(n, "fulfilled")
          /\ loading' = FALSE
          /\ UNCHANGED error
     ELSE /\ error' = ErrorMessage(p.reason, fallback)
          /\ Settle(n, "rejected")
          /\ UNCHANGED <<cart, loading>>
  /\ UNCHANGED <<isOpen, cartId, localStorage, remote, calls, started>>

\* LinesSettled with a catch block that also drops the snapshot.
LinesSettledDropsCart(n, fn, fallback) ==
  /\ Pending(n)
  /\ ops[n].pc = fn
  /\ LET p == ops[n].promise IN
     IF p.status = "fulfilled"
     THEN /\ cart' = p.value
          /\ Settle(n, "fulfilled")
          /\ UNCHANGED error
     ELSE /\ error' = ErrorMessage(p.reason, fallback)
          /\ Settle(n, "rejected")
          /\ cart' = NULL
  /\ loading' = FALSE
  /\ UNCHANGED <<isOpen, cartId, localStorage, remote, calls, started>>

\* A lines call whose result is dropped when a snapshot is already held.
LinesSettledFirstWins(n, fn, fallback) ==
  /\ Pending(n)
  /\ ops[n].pc = fn
  /\ LET p == ops[n].promise IN
     IF p.status = "fulfilled"
     THEN /\ cart' = IF cart = NULL THEN p.value ELSE cart
          /\ Settle(n, "fulfilled")
          /\ UNCHANGED error
     ELSE /\ error' = ErrorMessage(p.reason, fallback)
          /\ Settle(n, "rejected")
          /\ UNCHANGED cart
  /\ loading' = FALSE
  /\ UNCHANGED <<isOpen, cartId, localStorage, remote, calls, started>>

\* A failed lines call handled as a failed fetch is: the identity is forgotten.
LinesSettledForgetsIdentity(n, fn, fallback) ==
  /\ Pending(n)
  /\ ops[n].pc = fn
  /\ LET p == ops[n].promise IN
     IF p.status = "fulfilled"
     THEN /\ cart' = p.value
          /\ Settle(n, "fulfilled")
          /\ UNCHANGED <<error, cartId, localStorage>>
     ELSE /\ error' = ErrorMessage(p.reason, fallback)
          /\ Settle(n, "rejected")
          /\ cartId' = NULL
          /\ localStorage' = NULL
          /\ UNCHANGED cart
  /\ loading' = FALSE
  /\ UNCHANGED <<isOpen, remote, calls, started>>

\* A mutation resumes after the await of its add-, remove- or update-lines call.
LinesSettled(n, fn, fallback) ==
  /\ Pending(n)
  /\ ops[n].pc = fn
  /\ LET p == ops[n].promise IN
     IF p.status = "fulfilled"
     THEN /\ cart' = p.value
          /\ Settle(n, "fulfilled")
          /\ UNCHANGED error
     ELSE /\ error' = ErrorMessage(p.reason, fallback)
          /\ Settle(n, "rejected")
          /\ UNCHANGED cart
  /\ loading' = FALSE
  /\ UNCHANGED <<isOpen, cartId, localStorage, remote, calls, started>>

AddCartLinesSettled(n) == LinesSettled(n, "addCartLines", Str("Failed to add item to cart"))

RemoveCartLinesSettled(n) ==
  LinesSettled(n, "removeCartLines", Str("Failed to remove item from cart"))

UpdateCartLinesSettled(n) ==
  LinesSettled(n, "updateCartLines", Str("Failed to update item quantity"))

\* The no-cart failure also forgetting the persisted identity.
NoCartExistsForgetsIdentity(kind, lineId, q) ==
  /\ ops' = Append(ops, Op(kind, "throw", "rejected", NULL, NULL, lineId, q,
                           Rejected(ErrorOf(Str("No cart exists")))))
  /\ localStorage' = NULL
  /\ UNCHANGED <<cartId, cart, loading, error, remote, calls>>

\* throw new Error('No cart exists') before anything else is done.
NoCartExists(kind, lineId, q) ==
  /\ ops' = Append(ops, Op(kind, "throw", "rejected", NULL, NULL, lineId, q,
                           Rejected(ErrorOf(Str("No cart exists")))))
  /\ UNCHANGED <<cartId, cart, loading, error, localStorage, remote, calls>>

\* The body of removeItem, also reached from updateItemQuantity.
RemoveBody(kind, lineId, q) ==
  IF cartId = NULL
  THEN NoCartExists(kind, lineId, q)
  ELSE /\ loading' = TRUE
       /\ error' = NULL
       /\ Begin(kind, "removeCartLines", cartId, NULL, lineId, q)
       /\ UNCHANGED <<cartId, cart, localStorage>>

removeItem(lineId) ==
  /\ started
  /\ Len(ops) < MaxOps
  /\ RemoveBody("removeItem", lineId, 0)
  /\ UNCHANGED <<isOpen, started>>

\* updateItemQuantity sending every quantity to update-lines.
updateItemQuantityNoDelegation(lineId, quantity) ==
  /\ started
  /\ Len(ops) < MaxOps
  /\ IF cartId = NULL
     THEN NoCartExists("updateItemQuantity", lineId, quantity)
     ELSE /\ loading' = TRUE
          /\ error' = NULL
          /\ Begin("updateItemQuantity", "updateCartLines", cartId, NULL,
                   lineId, quantity)
          /\ UNCHANGED <<cartId, cart, localStorage>>
  /\ UNCHANGED <<isOpen, started>>

\* updateItemQuantity delegating only for negative quantities.
updateItemQuantityNegativeOnly(lineId, quantity) ==
  /\ started
  /\ Len(ops) < MaxOps
  /\ IF cartId = NULL
     THEN NoCartExists("updateItemQuantity", lineId, quantity)
     ELSE IF quantity < 0
          THEN RemoveBody("updateItemQuantity", lineId, quantity)
          ELSE /\ loading' = TRUE
               /\ error' = NULL
               /\ Begin("updateItemQuantity", "updateCartLines", cartId, NULL,
                        lineId, quantity)
               /\ UNCHANGED <<cartId, cart, localStorage>>
  /\ UNCHANGED <<isOpen, started>>

updateItemQuantity(lineId, quantity) ==
  /\ started
  /\ Len(ops) < MaxOps
  /\ IF cartId = NULL
     THEN NoCartExists("updateItemQuantity", lineId, quantity)
     ELSE IF quantity <= 0
          THEN RemoveBody("updateItemQuantity", lineId, quantity)
          ELSE /\ loading' = TRUE
               /\ error' = NULL
               /\ Begin("updateItemQuantity", "updateCartLines", cartId, NULL,
                        lineId, quantity)
               /\ UNCHANGED <<cartId, cart, localStorage>>
  /\ UNCHANGED <<isOpen, started>>

(* --------------------------- specification ----------------------------- *)

\* Carts a previous session may have left at the service.
PersistedCarts ==
  {NULL, Cart(PersistedGid, <<Edge(Str("variant-A"), 1), Edge(Str("variant-B"), 2)>>)}

\* The state after CartProvider's first render.
Init ==
  /\ isOpen = FALSE
  /\ cartId = NULL
  /\ cart = NULL
  /\ loading = TRUE
  /\ error = NULL
  /\ localStorage \in {NULL, PersistedGid}
  /\ \E c \in PersistedCarts :
       /\ localStorage = NULL => c = NULL
       /\ remote = [g \in CartGids |-> IF g = PersistedGid THEN c ELSE NULL]
  /\ ops = <<>>
  /\ calls = <<>>
  /\ started = FALSE

Next ==
  \/ Startup
  \/ RefreshCart
  \/ \E n \in 1..Len(ops) : GetCartSettled(n)
  \/ openCart
  \/ closeCart
  \/ toggleCart
  \/ \E a \in AddInputs : addItem(a[1], a[2])
  \/ \E n \in 1..Len(ops) : CreateCartSettled(n)
  \/ \E n \in 1..Len(ops) : AddCartLinesSettled(n)
  \/ \E l \in LineIds : removeItem(l)
  \/ \E n \in 1..Len(ops) : RemoveCartLinesSettled(n)
  \/ \E l \in LineIds, q \in UpdateQuantities : updateItemQuantity(l, q)
  \/ \E n \in 1..Len(ops) : UpdateCartLinesSettled(n)

Spec == Init /\ [][Next]_vars

(* ------------------------------ properties ----------------------------- *)

OpIds == 1..Len(ops)

\* Operation n has called create-cart.
Created(n) == \E i \in 1..Len(calls) : calls[i].fn = "createCart" /\ calls[i].op = n

\* Operation n ran from its invocation on with no other operation in flight.
RanAlone(n) == ops[n].alone /\ n = Len(ops)

\* C1: addItem calls issued while no identity exists, also before an earlier
\* addItem's create-cart has resolved, make at most one create-cart call: no
\* two create-cart calls are ever outstanding together.
C1_SingleCreateCart ==
  Cardinality({n \in InFlight : ops[n].pc = "createCart"}) <= 1

\* C2: mutations are serialized: at no time are two gateway mutation calls of
\* the core (of addItem, removeItem, updateItemQuantity) outstanding together.
C2_MutationsSerialized ==
  Cardinality({n \in InFlight : ops[n].kind # "refreshCart"}) <= 1

\* The step in which addItem n handles the failure of its add-lines call.
AddLinesFails(n) ==
  /\ Pending(n)
  /\ ops[n].kind = "addItem"
  /\ ops[n].pc = "addCartLines"
  /\ ops'[n].status = "rejected"

\* C3 (as claimed): when add-lines fails during addItem, the snapshot is the
\* one from before addItem was invoked, also when addItem created the cart on
\* demand; itemCount is unchanged, error is set and loading is cleared.
C3_SnapshotAsBeforeAddItem ==
  [][\A n \in OpIds :
       AddLinesFails(n) /\ RanAlone(n)
         => /\ cart' = ops[n].pre
            /\ ItemCount(cart') = ItemCount(ops[n].pre)
            /\ error' # NULL
            /\ loading' = FALSE]_vars

\* C3 (amended): when add-lines fails during addItem, handling the failure
\* leaves the snapshot and itemCount as they were just before it, sets error
\* and clears loading; with no other operation in flight the snapshot is the
\* one from before addItem if an identity existed, and the empty cart that
\* create-cart returned if addItem created the cart on demand.
C3_AddLinesFailureKeepsSnapshot ==
  [][\A n \in OpIds :
       AddLinesFails(n)
         => /\ cart' = cart
            /\ ItemCount(cart') = ItemCount(cart)
            /\ error' # NULL
            /\ loading' = FALSE
            /\ RanAlone(n) =>
                 cart' = IF Created(n) THEN Cart(ops[n].cartId, <<>>) ELSE ops[n].pre]_vars

\* An addItem that created its cart on demand, alone, has had its add-lines fail.
C3_Witness ==
  \E n \in OpIds :
    /\ ops[n].kind = "addItem"
    /\ ops[n].pc = "addCartLines"
    /\ ops[n].status = "rejected"
    /\ Created(n)
    /\ RanAlone(n)

\* C4: updateItemQuantity(lineX, 3) and then removeItem(lineX), issued at once
\* or after the first has resolved: once both have succeeded, the snapshot
\* does not contain lineX, whichever response arrived first.
C4_RemovalWins ==
  \A l \in LineIds :
    LET u == Len(ops) - 1
        r == Len(ops)
    IN (/\ Len(ops) >= 2
        /\ ops[u].kind = "updateItemQuantity"
        /\ ops[u].lineId = l
        /\ ops[u].quantity = 3
        /\ ops[u].alone
        /\ ops[r].kind = "removeItem"
        /\ ops[r].lineId = l
        /\ ops[u].status = "fulfilled"
        /\ ops[r].status = "fulfilled")
       => \A i \in 1..Len(items) : items[i].id # l

\* The step in which the refreshCart n resumes after its fetch.
GetCartSettles(n) ==
  /\ Pending(n)
  /\ ops[n].pc = "getCart"
  /\ ops'[n].status # "pending"

\* C5: a persisted identity whose fetch returns not-found (null): when startup
\* completes, the persisted identity is cleared, identity and snapshot are
\* absent, loading is false and startup has set no error (the error state is
\* unset when startup is the only operation that has settled).
C5_NotFoundAtStartup ==
  [][\A n \in OpIds :
       (/\ GetCartSettles(n)
        /\ ops[n].startup
        /\ ops[n].promise = Fulfilled(NULL))
         => /\ localStorage' = NULL
            /\ cartId' = NULL
            /\ cart' = NULL
            /\ loading' = FALSE
            /\ error' = error
            /\ (\A m \in OpIds \ {n} : Pending(m)) => error' = NULL
            /\ ops'[n].status = "fulfilled"]_vars

\* Startup alone has completed for a persisted identity the service did not know.
C5_Witness ==
  /\ Len(ops) = 1
  /\ ops[1].startup
  /\ ops[1].cartId = PersistedGid
  /\ ops[1].status = "fulfilled"
  /\ remote[PersistedGid] = NULL
  /\ localStorage = NULL
  /\ error = NULL

\* C6: when the fetch of startup or of refreshCart fails, the persisted
\* identity is cleared, identity and snapshot become absent, an error is
\* recorded, loading is cleared and refreshCart does not throw.
C6_FetchFailure ==
  [][\A n \in OpIds :
       (GetCartSettles(n) /\ ops[n].promise.status = "rejected")
         => /\ localStorage' = NULL
            /\ cartId' = NULL
            /\ cart' = NULL
            /\ error' # NULL
            /\ loading' = FALSE
            /\ ops'[n].status = "fulfilled"]_vars

\* A refreshCart invoked after startup has had its fetch fail.
C6_Witness ==
  \E n \in OpIds :
    /\ ~ops[n].startup
    /\ ops[n].kind = "refreshCart"
    /\ ops[n].pc = "getCart"
    /\ ops[n].status = "fulfilled"
    /\ error = Str("Failed to fetch cart")
    /\ localStorage = NULL

\* No operation so far has found a persisted identity or changed the cart.
FreshSession == \A m \in OpIds : ops[m].kind = "refreshCart" /\ ops[m].pc = "return"

\* The step in which an operation of the given kind is invoked.
Invoked(kind) == Len(ops') = Len(ops) + 1 /\ ops'[Len(ops')].kind = kind

\* C7: in a fresh session with no persisted identity, startup or refreshCart
\* completes without a gateway call and leaves items = [], itemCount = 0,
\* totalAmount = 0, checkoutUrl absent and loading false.
C7_FreshSession ==
  [][(Invoked("refreshCart") /\ localStorage = NULL /\ FreshSession)
       => /\ calls' = <<>>
          /\ ops'[Len(ops')].status = "fulfilled"
          /\ Items(cart') = <<>>
          /\ ItemCount(cart') = 0
          /\ TotalAmount(cart') = Num(0)
          /\ CheckoutUrl(cart') = NULL
          /\ loading' = FALSE]_vars

\* Startup and a later refreshCart have completed in a fresh session.
C7_Witness ==
  /\ Len(ops) = 2
  /\ FreshSession
  /\ ops[1].startup
  /\ ~ops[2].startup
  /\ loading = FALSE

\* C8: a single addItem on an empty cart with no identity, the gateway
\* succeeding: exactly one create-cart call, then exactly one add-lines call
\* with the id of the created cart; itemCount is the quantity added (2 for
\* addItem(variant, 2)); the new identity is in memory and in localStorage.
C8_AddItemOnEmptyCart ==
  (/\ Len(ops) = 2
   /\ ops[1].pc = "return"
   /\ ops[2].kind = "addItem"
   /\ ops[2].status = "fulfilled")
    => /\ Len(calls) = 2
       /\ calls[1] = CallOf("createCart", NULL, 2)
       /\ calls[2] = CallOf("addCartLines", Gid(1), 2)
       /\ remote[Gid(1)] # NULL
       /\ itemCount = ops[2].quantity
       /\ cart.id = Gid(1)
       /\ cartId = Gid(1)
       /\ localStorage = Gid(1)

\* addItem('variant-A', 2) has succeeded on an empty cart with no identity.
C8_Witness ==
  /\ Len(ops) = 2
  /\ ops[1].pc = "return"
  /\ ops[2].kind = "addItem"
  /\ ops[2].variantId = Str("variant-A")
  /\ ops[2].quantity = 2
  /\ ops[2].status = "fulfilled"
  /\ itemCount = 2

\* The sum of the quantities of the first i edges.
RECURSIVE SumOfQuantities(_, _)
SumOfQuantities(edges, i) ==
  IF i = 0 THEN 0 ELSE SumOfQuantities(edges, i - 1) + edges[i].node.quantity

\* C9: in every state itemCount is the sum of the quantities of the lines of
\* the snapshot and items is the snapshot's ordered line list, empty without
\* a snapshot.
C9_ItemCountIsSum ==
  IF cart = NULL
  THEN items = <<>> /\ itemCount = 0
  ELSE LET edges == cart.lines.edges IN
       /\ Len(items) = Len(edges)
       /\ \A i \in 1..Len(edges) : items[i] = edges[i].node
       /\ itemCount = SumOfQuantities(edges, Len(edges))

\* A mutation has left a snapshot of two lines with different quantities.
C9_Witness ==
  /\ cart # NULL
  /\ Len(items) = 2
  /\ items[1].quantity # items[2].quantity
  /\ \E n \in OpIds : ops[n].kind # "refreshCart" /\ ops[n].status = "fulfilled"

\* C10: in every state totalAmount is the number the snapshot's total cost
\* amount denotes (the total the service formatted), 0 without a snapshot;
\* checkoutUrl is the snapshot's URL, absent without a snapshot.
C10_TotalAmountAndCheckoutUrl ==
  IF cart = NULL
  THEN totalAmount = Num(0) /\ checkoutUrl = NULL
  ELSE /\ totalAmount = Num(LinesTotal(cart.lines.edges))
       /\ checkoutUrl = cart.checkoutUrl
       /\ checkoutUrl # NULL

\* A mutation has left a snapshot whose total has a fraction.
C10_Witness ==
  /\ cart # NULL
  /\ ~totalAmount.nan
  /\ totalAmount.hundredths % 100 # 0
  /\ \E n \in OpIds : ops[n].kind # "refreshCart" /\ ops[n].status = "fulfilled"

(* C11: for every line and every quantity <= 0, updateItemQuantity(line,
   quantity) is removeItem(line): the step it takes is the step of
   removeItem's body from the same state (the no-cart failure without an
   identity, otherwise loading set, error cleared and one removeCartLines
   call for that line under the current identity), and its gateway call is
   settled by removeItem's continuation (same snapshot, loading, error and
   outcome).  Only the label of the operation's record differs. *)
C11_NonPositiveQuantityIsRemoveItem ==
  [][/\ (Invoked("updateItemQuantity") /\ ops'[Len(ops')].quantity <= 0) =>
          /\ started
          /\ RemoveBody("updateItemQuantity", ops'[Len(ops')].lineId,
                        ops'[Len(ops')].quantity)
          /\ UNCHANGED <<isOpen, started>>
     /\ \A n \in OpIds :
          ( /\ Pending(n)
            /\ ops[n].kind = "updateItemQuantity"
            /\ ops[n].quantity <= 0
            /\ ops'[n].status # "pending" ) => RemoveCartLinesSettled(n)
    ]_vars

\* updateItemQuantity with quantity 0 and with -1 have both removed a line.
C11_Witness ==
  \E n \in OpIds, k \in OpIds :
    /\ n # k
    /\ ops[n].kind = "updateItemQuantity" /\ ops[k].kind = "updateItemQuantity"
    /\ ops[n].quantity = 0 /\ ops[k].quantity = -1
    /\ ops[n].pc = "removeCartLines" /\ ops[k].pc = "removeCartLines"
    /\ ops[n].status = "fulfilled" /\ ops[k].status = "fulfilled"
    /\ cart # NULL
    /\ Len(cart.lines.edges) = 0

(* C12: removeItem and updateItemQuantity invoked while there is no current
   identity (cartId is null) fail with the no-cart failure, make no gateway
   call, and leave the snapshot, the identity and the persisted identity
   unchanged. *)
C12_NoCartFailure ==
  [][\A kind \in {"removeItem", "updateItemQuantity"} :
       (Invoked(kind) /\ cartId = NULL) =>
         /\ ops'[Len(ops')].status = "rejected"
         /\ ops'[Len(ops')].promise = Rejected(ErrorOf(Str("No cart exists")))
         /\ calls' = calls
         /\ remote' = remote
         /\ cart' = cart
         /\ cartId' = cartId
         /\ localStorage' = localStorage
    ]_vars

\* Both operations have failed for want of an identity while the persisted
\* identity was still there, and no gateway call was logged for them.
C12_Witness ==
  \E n \in OpIds, k \in OpIds :
    /\ ops[n].kind = "removeItem" /\ ops[k].kind = "updateItemQuantity"
    /\ ops[n].pc = "throw" /\ ops[k].pc = "throw"
    /\ ops[n].status = "rejected" /\ ops[k].status = "rejected"
    /\ \A i \in 1..Len(calls) : calls[i].op \notin {n, k}
    /\ localStorage # NULL
    /\ cartId = NULL

\* The removeCartLines or updateCartLines call of operation n is rejected and
\* the operation resumes in this step.
LinesCallFails(n) ==
  /\ Pending(n)
  /\ ops[n].pc \in {"removeCartLines", "updateCartLines"}
  /\ ops[n].promise.status = "rejected"
  /\ ops'[n].status # "pending"

(* C13: when the remove-lines or update-lines call of removeItem or
   updateItemQuantity fails, handling the failure leaves the snapshot, the
   in-memory identity and the persisted identity as they were, sets the
   error state, clears the loading flag and rejects the operation; with no
   other operation in flight since the invocation, snapshot and identity
   are those from before the call. *)
C13_LinesFailureKeepsState ==
  [][\A n \in OpIds :
       LinesCallFails(n) =>
         /\ cart' = cart
         /\ cartId' = cartId
         /\ localStorage' = localStorage
         /\ error' # NULL
         /\ loading' = FALSE
         /\ ops'[n].status = "rejected"
         /\ RanAlone(n) => /\ cart' = ops[n].pre
                           /\ cartId' = ops[n].cartId
    ]_vars

\* A removeItem and an updateItemQuantity have both been refused by the
\* gateway and the cart adopted at startup is still the snapshot.
C13_Witness ==
  \E n \in OpIds, k \in OpIds :
    /\ ops[n].kind = "removeItem" /\ ops[n].pc = "removeCartLines"
    /\ ops[k].kind = "updateItemQuantity" /\ ops[k].pc = "updateCartLines"
    /\ ops[n].status = "rejected" /\ ops[k].status = "rejected"
    /\ cart \in PersistedCarts \ {NULL}
    /\ cartId = PersistedGid
    /\ localStorage = PersistedGid
    /\ error # NULL
    /\ ~loading

\* The startup protocol has completed: the mount effect has run refreshCart
\* and the fetch it made, if any, has settled.
StartupDone ==
  /\ started
  /\ \A n \in OpIds : ops[n].startup => ~Pending(n)

(* C14: from provider mount until the startup protocol has completed,
   loading is true in every state, whatever mutations are invoked and
   settle in the meantime (no refreshCart other than the startup's own is
   considered). *)
C14_LoadingUntilStartupDone ==
  ( /\ ~StartupDone
    /\ \A n \in OpIds : ops[n].kind = "refreshCart" => ops[n].startup ) => loading

\* Operation n, a mutation, fails in this step: it is invoked and throws at
\* once, or its pending gateway call is handled as a failure.
MutationFails(n) ==
  /\ ops'[n].kind \in {"addItem", "removeItem", "updateItemQuantity"}
  /\ ops'[n].status = "rejected"
  /\ n \in OpIds => Pending(n)

(* C15: every mutation failure propagated to the caller (a gateway failure
   of addItem, removeItem or updateItemQuantity, a create-cart failure, the
   no-cart failure of removeItem and updateItemQuantity) also sets the
   shared error state. *)
C15_FailureSetsError ==
  [][\A n \in 1..Len(ops') : MutationFails(n) => error' # NULL]_vars

\* The pending gateway call of operation n resolves in this step, and it
\* resolves successfully.
Resolves(n) == Pending(n) /\ ops'[n] # ops[n]

Succeeds(n) == Resolves(n) /\ ops[n].promise.status = "fulfilled"

(* C16 (as claimed): snapshot replacements apply in the order their gateway
   calls resolve, and the current snapshot is always the result of the most
   recently resolved successful gateway call: every successful resolution
   makes its result the snapshot, and nothing else changes the snapshot. *)
C16_SnapshotIsLastResult ==
  [][/\ \A n \in OpIds : Succeeds(n) => cart' = ops[n].promise.value
     /\ cart' # cart => \E n \in OpIds : Succeeds(n)
    ]_vars

(* C16 (amended): every successful resolution of a gateway call makes its
   result the snapshot at the moment it resolves, so an operation that
   starts after another has completed leaves its own result once it
   succeeds; the only other change of the snapshot is a failed fetch, which
   clears it. *)
C16_SnapshotFollowsResolution ==
  [][/\ \A n \in OpIds : Succeeds(n) => cart' = ops[n].promise.value
     /\ cart' # cart =>
          \E n \in OpIds :
            \/ Succeeds(n)
            \/ Resolves(n) /\ ops[n].pc = "getCart" /\ cart' = NULL
    ]_vars

\* A second addItem, started after the first had completed, has succeeded
\* and the snapshot holds the lines of both.
C16_Witness ==
  \E n \in OpIds, k \in OpIds :
    /\ n < k
    /\ ops[n].kind = "addItem" /\ ops[k].kind = "addItem"
    /\ ops[n].status = "fulfilled" /\ ops[k].status = "fulfilled"
    /\ ops[k].alone
    /\ cart # NULL
    /\ HasVariant(cart, ops[n].variantId)
    /\ HasVariant(cart, ops[k].variantId)
    /\ ops[n].variantId # ops[k].variantId

\* The identity getOrCreateCart finds without calling the gateway.
ExistingIdentity == IF cartId # NULL THEN cartId ELSE localStorage

(* C17: addItem invoked while an identity exists, in memory or persisted,
   uses that identity unchanged for its add-lines call and makes no
   create-cart call, neither at once nor later; the persisted identity is
   not rewritten. *)
C17_AddItemUsesExistingIdentity ==
  [][/\ (Invoked("addItem") /\ ExistingIdentity # NULL) =>
          /\ calls' = Append(calls, CallOf("addCartLines", ExistingIdentity, Len(ops')))
          /\ ops'[Len(ops')].cartId = ExistingIdentity
          /\ cartId' = ExistingIdentity
          /\ localStorage' = localStorage
     /\ \A n \in OpIds :
          (ops[n].kind = "addItem" /\ ~Created(n) /\ Resolves(n)) =>
            /\ calls' = calls
            /\ localStorage' = localStorage
    ]_vars

\* An addItem invoked while startup was still validating the persisted
\* identity has added its line under that identity, and no cart was created.
C17_Witness ==
  \E n \in OpIds, m \in OpIds :
    /\ ops[m].startup /\ Pending(m)
    /\ ops[n].kind = "addItem"
    /\ ops[n].status = "fulfilled"
    /\ ops[n].cartId = PersistedGid
    /\ localStorage = PersistedGid
    /\ \A i \in 1..Len(calls) : calls[i].fn # "createCart"
    /\ cart # NULL
    /\ HasVariant(cart, ops[n].variantId)

(* C18: when the fetch of startup or of refreshCart succeeds with a cart,
   the fetched cart becomes the snapshot, the identity the fetch was made
   for becomes the in-memory identity, the persisted identity is left as it
   is, loading is cleared and no error is written; with no other operation
   in flight since the invocation the error state is absent and the
   in-memory identity is the persisted one. *)
C18_FetchAdoptsCart ==
  [][\A n \in OpIds :
       (/\ GetCartSettles(n)
        /\ ops[n].promise.status = "fulfilled"
        /\ ops[n].promise.value # NULL)
         => /\ cart' = ops[n].promise.value
            /\ cartId' = ops[n].cartId
            /\ localStorage' = localStorage
            /\ loading' = FALSE
            /\ error' = error
            /\ ops'[n].status = "fulfilled"
            /\ RanAlone(n) => /\ error' = NULL
                              /\ localStorage' = cartId'
    ]_vars

\* Startup has adopted the persisted cart, a line has been removed from it,
\* and a refreshCart made afterwards has adopted the cart without that line.
C18_Witness ==
  /\ Len(ops) = 3
  /\ ops[1].startup /\ ops[1].pc = "getCart"
  /\ ops[2].kind = "removeItem" /\ ops[2].status = "fulfilled"
  /\ ops[3].kind = "refreshCart" /\ ops[3].pc = "getCart" /\ ops[3].alone
  /\ ops[3].status = "fulfilled"
  /\ cart # NULL
  /\ cart = remote[PersistedGid]
  /\ Len(cart.lines.edges) = 1
  /\ cartId = PersistedGid
  /\ localStorage = PersistedGid
  /\ error = NULL
  /\ ~loading

\* Everything but the open/closed flag.
dataState == <<cartId, cart, loading, error, localStorage, remote, ops, calls, started>>

(* C19: the open/closed flag is orthogonal to the data state: openCart sets
   isOpen, closeCart clears it, toggleCart negates it, and each leaves
   snapshot, identity, loading, error and everything else unchanged; a step
   that changes isOpen changes nothing else and a step that changes the
   data state does not change isOpen, so a flag write and a snapshot write
   give the same state in either order. *)
C19_FlagOrthogonal ==
  [][/\ openCart => (isOpen' = TRUE /\ UNCHANGED dataState)
     /\ closeCart => (isOpen' = FALSE /\ UNCHANGED dataState)
     /\ toggleCart => (isOpen' = ~isOpen /\ UNCHANGED dataState)
     /\ isOpen' # isOpen => UNCHANGED dataState
     /\ dataState' # dataState => isOpen' = isOpen
    ]_vars

\* The display is open, an addItem has succeeded and another operation is
\* still in flight.
C19_Witness ==
  /\ isOpen
  /\ cart # NULL
  /\ InFlight # {}
  /\ \E n \in OpIds : ops[n].kind = "addItem" /\ ops[n].status = "fulfilled"

\* No operation is in flight and the mount effect has run.
Quiescent == started /\ InFlight = {}

(* C20: no error state is terminal.  In every state with no operation in
   flight, whatever has failed before, the identity addItem would use (if
   any) names a cart the service holds, so that its calls can succeed; and
   an addItem invoked there, which has no precondition, completes when its
   gateway calls succeed with the returned cart as snapshot, holding the
   added variant, with the error state cleared and loading false. *)
C20_NoTerminalError ==
  [][/\ (Quiescent /\ ExistingIdentity # NULL) => remote[ExistingIdentity] # NULL
     /\ \A n \in OpIds :
          ( /\ ops[n].kind = "addItem"
            /\ ops[n].pc = "addCartLines"
            /\ Succeeds(n)
            /\ RanAlone(n) ) =>
            /\ cart' = ops[n].promise.value
            /\ HasVariant(cart', ops[n].variantId)
            /\ error' = NULL
            /\ loading' = FALSE
            /\ ops'[n].status = "fulfilled"
    ]_vars

\* After an addItem whose create-cart call failed, a second addItem, invoked
\* with nothing in flight, has created the cart and added its line.
C20_Witness ==
  \E k \in OpIds, n \in OpIds :
    /\ k < n
    /\ ops[k].kind = "addItem" /\ ops[k].pc = "createCart"
    /\ ops[k].status = "rejected"
    /\ ops[n].kind = "addItem" /\ ops[n].alone
    /\ ops[n].status = "fulfilled"
    /\ cart # NULL
    /\ HasVariant(cart, ops[n].variantId)
    /\ error = NULL
    /\ ~loading

(* C24: in every state where no core operation is in flight and the
   in-memory identity is present, the persisted identity equals it,
   whatever the interleaving of startup, refreshCart and mutations and
   whatever the gateway answers. *)
C24_PersistedIsIdentity ==
  (Quiescent /\ cartId # NULL) => localStorage = cartId

(* C25: in every state where no core operation is in flight and a snapshot
   is present, the in-memory identity is present and is the snapshot's id,
   also when a mutation's gateway call resolves after a concurrent
   refreshCart has invalidated the identity. *)
C25_SnapshotHasIdentity ==
  (Quiescent /\ cart # NULL) => (cartId # NULL /\ cartId = cart.id)

\* The create-cart call of operation n is rejected and addItem resumes in
\* this step.
CreateCartFails(n) ==
  /\ Pending(n)
  /\ ops[n].pc = "createCart"
  /\ ops[n].promise.status = "rejected"
  /\ ops'[n] # ops[n]

(* C26: when create-cart fails inside addItem, no add-lines call is made
   (no gateway call at all), no identity is stored in memory or in
   localStorage, the snapshot is unchanged, the error state is set,
   loading is cleared and addItem rejects; with no other operation in
   flight since the invocation both identities are still absent and the
   snapshot is the one from before addItem. *)
C26_CreateCartFailure ==
  [][\A n \in OpIds :
       CreateCartFails(n) =>
         /\ calls' = calls
         /\ remote' = remote
         /\ \A i \in 1..Len(calls') : calls'[i].op = n => calls'[i].fn = "createCart"
         /\ cartId' = cartId
         /\ localStorage' = localStorage
         /\ cart' = cart
         /\ error' # NULL
         /\ loading' = FALSE
         /\ ops'[n].status = "rejected"
         /\ RanAlone(n) => /\ cartId' = NULL
                           /\ localStorage' = NULL
                           /\ cart' = ops[n].pre
    ]_vars

\* A single addItem in a fresh session has failed at create-cart: the only
\* call made is that create-cart and there is no identity and no snapshot.
C26_Witness ==
  /\ Len(ops) = 2
  /\ ops[1].pc = "return"
  /\ ops[2].kind = "addItem"
  /\ ops[2].pc = "createCart"
  /\ ops[2].status = "rejected"
  /\ calls = <<CallOf("createCart", NULL, 2)>>
  /\ cartId = NULL
  /\ localStorage = NULL
  /\ cart = NULL
  /\ error # NULL
  /\ ~loading

(* C27: whatever quantities updateItemQuantity is called with, every
   update-lines call the core has sent to the gateway carries a quantity
   greater than 0. *)
C27_UpdateLinesQuantityPositive ==
  \A i \in 1..Len(calls) :
    calls[i].fn = "updateCartLines" => ops[calls[i].op].quantity > 0

\* updateItemQuantity has been called with 0 and with 3 on an existing
\* cart: one remove-lines call and one update-lines call were sent.
C27_Witness ==
  \E n \in OpIds, k \in OpIds :
    /\ ops[n].kind = "updateItemQuantity" /\ ops[n].quantity = 0
    /\ ops[k].kind = "updateItemQuantity" /\ ops[k].quantity = 3
    /\ \E i \in 1..Len(calls) : calls[i].op = n /\ calls[i].fn = "removeCartLines"
    /\ \E i \in 1..Len(calls) : calls[i].op = k /\ calls[i].fn = "updateCartLines"

\* The gateway's answer to the call operation n awaits is delivered: the
\* continuation of the operation runs.
Delivered(n) ==
  /\ n \in OpIds
  /\ \/ GetCartSettled(n)
     \/ CreateCartSettled(n)
     \/ AddCartLinesSettled(n)
     \/ RemoveCartLinesSettled(n)
     \/ UpdateCartLinesSettled(n)

\* The mount effect runs, and every gateway promise settles and its
\* continuation is run by the event loop.
Fairness ==
  /\ WF_vars(Startup)
  /\ \A n \in 1..MaxOps : WF_vars(Delivered(n))

FairSpec == Spec /\ Fairness

(* C28: every operation that sets loading clears it when it settles: in
   every state after startup with no core operation in flight loading is
   false; and when gateway responses are delivered fairly, every operation
   that has started reaches a state in which it has settled, nothing is in
   flight and loading is false. *)
C28_LoadingCleared ==
  /\ [](Quiescent => ~loading)
  /\ \A n \in 1..MaxOps :
       (n \in OpIds /\ Pending(n)) ~>
         (Quiescent /\ n \in OpIds /\ ~Pending(n) /\ ~loading)

\* An addItem that created the cart has succeeded and a removeItem has
\* failed; nothing is in flight and loading is false.
C28_Witness ==
  /\ Quiescent
  /\ ~loading
  /\ \E n \in OpIds : ops[n].kind = "addItem" /\ Created(n) /\ ops[n].status = "fulfilled"
  /\ \E n \in OpIds : ops[n].kind = "removeItem" /\ ops[n].pc = "removeCartLines"
                      /\ ops[n].status = "rejected"

(* ------------------- the gateway functions on their own ------------------ *)

\* The cart identifiers a caller passes to the gateway.
GatewayIds == {PersistedGid, Gid(1)}

\* What one invocation of a gateway function did and returned.
Invocation(fn, id, g) ==
  [fn |-> fn, cartId |-> id, requests |-> g.requests, promise |-> g.promise]

\* A caller invokes a gateway function; the log keeps what the call did.
Invoke(fn, id, v, lineId, q) ==
  /\ Len(calls) < MaxOps
  /\ \E outcome \in Outcomes(fn) :
       LET g == Gateway(fn, id, v, lineId, q, outcome) IN
       /\ remote' = g.remote
       /\ calls' = Append(calls, Invocation(fn, id, g))
  /\ UNCHANGED <<isOpen, cartId, cart, loading, error, localStorage, ops, started>>

createCart == Invoke("createCart", NULL, NULL, NULL, 0)

addCartLines(id, v, q) == Invoke("addCartLines", id, v, NULL, q)

updateCartLines(id, lineId, q) == Invoke("updateCartLines", id, NULL, lineId, q)

removeCartLines(id, lineId) == Invoke("removeCartLines", id, NULL, lineId, 0)

getCart(id) == Invoke("getCart", id, NULL, NULL, 0)

GatewayNext ==
  \/ createCart
  \/ \E id \in GatewayIds, a \in AddInputs : addCartLines(id, a[1], a[2])
  \/ \E id \in GatewayIds, l \in LineIds : updateCartLines(id, l, 3)
  \/ \E id \in GatewayIds, l \in LineIds : removeCartLines(id, l)
  \/ \E id \in GatewayIds : getCart(id)

GatewaySpec == Init /\ [][GatewayNext]_vars

(* C22: the gateway performs no retries and no caching: every invocation of
   createCart, getCart, addCartLines, updateCartLines or removeCartLines
   sends exactly one request, for its own function and cart; it fails when
   the request got no response or the response carries a user error, and a
   result it returns is the cart of that one response. *)
C22_OneRequestPerCall ==
  \A i \in 1..Len(calls) :
    LET c == calls[i] IN
    /\ Len(c.requests) = 1
    /\ c.requests[1].fn = c.fn
    /\ c.requests[1].cartId = c.cartId
    /\ IF c.requests[1].response = NULL
       THEN c.promise.status = "rejected"
       ELSE /\ Len(c.requests[1].response.userErrors) > 0
                 => c.promise.status = "rejected"
            /\ c.promise.status = "fulfilled"
                 => c.promise.value = c.requests[1].response.cart

\* A mutation has failed by a user error, another has succeeded and a getCart
\* has failed in transport.
C22_Witness ==
  /\ \E i \in 1..Len(calls) :
       /\ calls[i].fn # "getCart"
       /\ calls[i].requests[1].response # NULL
       /\ Len(calls[i].requests[1].response.userErrors) > 0
       /\ calls[i].promise.status = "rejected"
  /\ \E i \in 1..Len(calls) :
       /\ calls[i].fn = "addCartLines"
       /\ calls[i].promise.status = "fulfilled"
  /\ \E i \in 1..Len(calls) :
       /\ calls[i].fn = "getCart"
       /\ calls[i].requests[1].response = NULL

(* ------------------ presentation components over the core ---------------- *)

\* What useShopifyCart returns of the context's state.
useShopifyCart ==
  [cart |-> cart, cartId |-> cartId, loading |-> loading, error |-> error,
   items |-> items, itemCount |-> itemCount, totalAmount |-> totalAmount,
   checkoutUrl |-> checkoutUrl]

\* A clearCartId that does forget the identity.
clearCartIdForgets ==
  /\ started
  /\ Len(ops) < MaxOps
  /\ ops' = Append(ops, Op("useShopifyCart.clearCartId", "return", "fulfilled",
                           cartId, NULL, NULL, 0, NULL))
  /\ cartId' = NULL
  /\ localStorage' = NULL
  /\ UNCHANGED <<isOpen, cart, loading, error, remote, calls, started>>

\* useShopifyCart().clearCartId(): warns and returns.
clearCartId ==
  /\ started
  /\ Len(ops) < MaxOps
  /\ ops' = Append(ops, Op("useShopifyCart.clearCartId", "return", "fulfilled",
                           cartId, NULL, NULL, 0, NULL))
  /\ UNCHANGED <<isOpen, cartId, cart, loading, error, localStorage, remote, calls,
                 started>>

\* useShopifyCart().createCart(): warns and returns the snapshot it was
\* rendered with.
useShopifyCartCreateCart ==
  /\ started
  /\ Len(ops) < MaxOps
  /\ ops' = Append(ops, Op("useShopifyCart.createCart", "return", "fulfilled",
                           cartId, NULL, NULL, 0, Fulfilled(useShopifyCart.cart)))
  /\ UNCHANGED <<isOpen, cartId, cart, loading, error, localStorage, remote, calls,
                 started>>

\* Header: the cart button.
HeaderToggleCart == toggleCart

\* CartDrawer: the close button and the sheet's onOpenChange(false), both
\* rendered while the drawer is open.
CartDrawerCloseCart ==
  /\ isOpen
  /\ closeCart

\* A decrement button disabled by loading alone.
CartDrawerDecrementAnyQuantity(item) == ~useShopifyCart.loading

\* CartDrawer: the decrement button of a displayed line.
CartDrawerDecrementEnabled(item) == ~(item.quantity <= 1 \/ useShopifyCart.loading)

CartDrawerDecrement ==
  /\ isOpen
  /\ \E i \in 1..Len(useShopifyCart.items) :
       LET item == useShopifyCart.items[i] IN
       /\ CartDrawerDecrementEnabled(item)
       /\ updateItemQuantity(item.id, item.quantity - 1)

\* CartDrawer: the increment button of a displayed line.
CartDrawerIncrementEnabled == ~useShopifyCart.loading

CartDrawerIncrement ==
  /\ isOpen
  /\ \E i \in 1..Len(useShopifyCart.items) :
       LET item == useShopifyCart.items[i] IN
       /\ CartDrawerIncrementEnabled
       /\ updateItemQuantity(item.id, item.quantity + 1)

\* CartDrawer: the remove button of a displayed line.
CartDrawerRemoveEnabled == ~useShopifyCart.loading

CartDrawerRemove ==
  /\ isOpen
  /\ \E i \in 1..Len(useShopifyCart.items) :
       LET item == useShopifyCart.items[i] IN
       /\ CartDrawerRemoveEnabled
       /\ removeItem(item.id)

\* The object ProductDetail passes where addItem expects the variant's id;
\* it travels as merchandiseId and is no merchandise the service knows.
ProductDetailItem == Str("[object Object]")

\* A handler that opens the drawer only once addItem has settled.
ProductDetailAwaitsAddItem == addItem(ProductDetailItem, 1)

\* ProductDetail.handleAddToCart: addItem(item) and, without awaiting it,
\* openCart().  Its button is rendered with ProductDetailInfo's default
\* loading = false, so the core's loading does not disable it.
ProductDetailHandleAddToCart ==
  /\ AddItemBody(ProductDetailItem, 1)
  /\ isOpen' = TRUE

\* ProductCard.handleAddToCart: with a cart identity, addCartLines for the
\* product's first variant, called on the gateway itself.
ProductCardHandleAddToCart(firstVariant) ==
  /\ started
  /\ Len(ops) < MaxOps
  /\ cartId # NULL
  /\ \E outcome \in Outcomes("addCartLines") :
       LET g == Gateway("addCartLines", cartId, firstVariant, NULL, 1, outcome) IN
       /\ remote' = g.remote
       /\ ops' = Append(ops, Op("ProductCard.handleAddToCart", "ProductCard.addCartLines",
                                "pending", cartId, firstVariant, NULL, 1, g.promise))
       /\ calls' = Append(calls, CallOf("addCartLines", cartId, Len(ops) + 1))
  /\ UNCHANGED <<isOpen, cartId, cart, loading, error, localStorage, started>>

\* ProductCard.handleAddToCart after its await: openCart() on success, the
\* failure is logged and dropped.
ProductCardSettled(n) ==
  /\ Pending(n)
  /\ ops[n].pc = "ProductCard.addCartLines"
  /\ isOpen' = (IF ops[n].promise.status = "fulfilled" THEN TRUE ELSE isOpen)
  /\ Settle(n, "fulfilled")
  /\ UNCHANGED <<cartId, cart, loading, error, localStorage, remote, calls, started>>

AppNext ==
  \/ Startup
  \/ \E n \in 1..Len(ops) : GetCartSettled(n)
  \/ \E n \in 1..Len(ops) : CreateCartSettled(n)
  \/ \E n \in 1..Len(ops) : AddCartLinesSettled(n)
  \/ \E n \in 1..Len(ops) : RemoveCartLinesSettled(n)
  \/ \E n \in 1..Len(ops) : UpdateCartLinesSettled(n)
  \/ HeaderToggleCart
  \/ CartDrawerCloseCart
  \/ CartDrawerDecrement
  \/ CartDrawerIncrement
  \/ CartDrawerRemove
  \/ ProductDetailHandleAddToCart
  \/ \E v \in Variants : ProductCardHandleAddToCart(v)
  \/ \E n \in 1..Len(ops) : ProductCardSettled(n)
  \/ clearCartId
  \/ useShopifyCartCreateCart

SpecApp == Init /\ [][AppNext]_vars

\* The gateway functions that change a remote cart.
GatewayMutations == {"createCart", "addCartLines", "updateCartLines", "removeCartLines"}

\* The core's mutation operations.
CoreMutations == {"addItem", "removeItem", "updateItemQuantity"}

(* C21: presentation components change the remote cart only through the
   core: every call of a gateway mutation (createCart, addCartLines,
   updateCartLines, removeCartLines) is made by one of the core's mutation
   operations, never by a component itself. *)
C21_OnlyCoreMutates ==
  \A i \in 1..Len(calls) :
    calls[i].fn \in GatewayMutations => ops[calls[i].op].kind \in CoreMutations

(* C23: useShopifyCart shares the context's cart state: the state fields it
   returns are the context's own; its createCart returns the current
   snapshot and makes no gateway call; its clearCartId changes neither the
   in-memory nor the persisted identity. *)
C23_WrapperSharesState ==
  [][/\ useShopifyCart =
          [cart |-> cart, cartId |-> cartId, loading |-> loading, error |-> error,
           items |-> Items(cart), itemCount |-> ItemCount(cart),
           totalAmount |-> TotalAmount(cart), checkoutUrl |-> CheckoutUrl(cart)]
     /\ Invoked("useShopifyCart.createCart") =>
          /\ ops'[Len(ops')].promise = Fulfilled(cart)
          /\ ops'[Len(ops')].status = "fulfilled"
          /\ UNCHANGED <<cartId, cart, loading, error, localStorage, remote, calls>>
     /\ Invoked("useShopifyCart.clearCartId") =>
          UNCHANGED <<cartId, cart, loading, error, localStorage, remote, calls>>
    ]_vars

\* With an identity in memory and persisted and a snapshot with lines, the
\* wrapper's createCart has returned that snapshot and its clearCartId has
\* been called.
C23_Witness ==
  /\ cartId # NULL
  /\ localStorage = cartId
  /\ cart # NULL
  /\ \E n \in OpIds :
       /\ ops[n].kind = "useShopifyCart.createCart"
       /\ ops[n].promise = Fulfilled(cart)
       /\ Len(cart.lines.edges) > 0
       /\ \E m \in OpIds : m < n /\ ops[m].kind = "useShopifyCart.clearCartId"

(* C29: while loading is true the CartDrawer's increment, decrement and
   remove controls are disabled, and the decrement control is disabled for a
   line of quantity <= 1; so every removeItem or updateItemQuantity the
   drawer issues is issued while loading is false, and no updateItemQuantity
   asks for a quantity <= 0. *)
C29_DrawerControls ==
  [][/\ loading => /\ ~CartDrawerIncrementEnabled
                    /\ ~CartDrawerRemoveEnabled
                    /\ \A i \in 1..Len(items) : ~CartDrawerDecrementEnabled(items[i])
     /\ \A i \in 1..Len(items) :
          items[i].quantity <= 1 => ~CartDrawerDecrementEnabled(items[i])
     /\ (Invoked("removeItem") \/ Invoked("updateItemQuantity")) =>
          /\ ~loading
          /\ isOpen
     /\ Invoked("updateItemQuantity") => ops'[Len(ops')].quantity > 0
    ]_vars

\* The drawer is open and shows lines while the decrement it issued (from 2
\* to 1) is in flight and loading is true.
C29_Witness ==
  /\ isOpen
  /\ loading
  /\ Len(items) > 0
  /\ \E n \in OpIds :
       /\ ops[n].kind = "updateItemQuantity"
       /\ ops[n].quantity = 1
       /\ Pending(n)

(* C30: ProductDetail's add-to-cart handler invokes addItem once and calls
   openCart in the same step, before addItem settles: isOpen is true from
   that step on and no settlement of an addItem, success or failure, changes
   it; the control is enabled whatever loading is, so a second addItem can
   be issued while the first is in flight. *)
C30_AddToCartOpensDrawer ==
  [][/\ Invoked("addItem") =>
          /\ isOpen'
          /\ ops'[Len(ops')].status = "pending"
          /\ Len(calls') = Len(calls) + 1
     /\ \A n \in OpIds : (ops[n].kind = "addItem" /\ Resolves(n)) => isOpen' = isOpen
     /\ (started /\ Len(ops) < MaxOps) => ENABLED ProductDetailHandleAddToCart
    ]_vars

\* The drawer is open and two addItem of ProductDetail are in flight
\* together.
C30_Witness ==
  /\ isOpen
  /\ loading
  /\ \E m, n \in OpIds :
       /\ m # n
       /\ ops[m].kind = "addItem" /\ Pending(m)
       /\ ops[n].kind = "addItem" /\ Pending(n)

====
